---- MODULE Spec2Model ----
(***************************************************************************)
(* scripts/daniel_mock_api.py: a mock HTTP server with two GET endpoints.  *)
(* The model follows SimpleHandler.do_GET and SimpleHandler._json line by  *)
(* line, with http.server.HTTPServer's accept loop around them.            *)
(*                                                                         *)
(* Strings the handler takes apart (the request path, the username) are    *)
(* sequences of one-character strings.  A Python dict is a function on its *)
(* keys.  A float is the exact value of an IEEE-754 binary64, counted in   *)
(* units of 2^-54 and held in two limbs <<hi, lo>> (value hi*2^27 + lo),   *)
(* because TLC's integers are 32 bits wide.                                *)
(***************************************************************************)
EXTENDS Integers, Sequences, FiniteSets, TLC

VARIABLES sample_data, enrichment_samples, conn

vars == <<sample_data, enrichment_samples, conn>>

(***************************** bounds **************************************)
\* Connections the clients open in one run.
MaxRequests == 3
\* Longest request-path tail (the part after a prefix) the clients send.
MaxTailLen == 3
\* Outputs of random.random() taken from each end of its range [0, 1).
EdgeSamples == 2

(***************************** module data *********************************)
SampleData0 ==
  << [labels |-> <<"UBC", "teen", "golf", "female">>,
      data |-> [text |-> "this girl is clearly an avid golf player who regularly goes to <Golf Course Name> on saturdays. They seem to attend UBC."]],
     [labels |-> <<"UAB", "teen", "skiing", "male", "food", "travel">>,
      data |-> [text |-> "this person likes to travel a lot on vacations, especially to ski resorts. They also seem to enjoy trying out different foods and food photography."]] >>

EnrichmentSamples0 ==
  << "Active university student, interested in startups and productivity workflows.",
     "Outdoor enthusiast; frequent posts about hiking, skiing, and mountain photography.",
     "Food lover experimenting with fusion recipes; occasional travel diaries.",
     "Aspiring content creator focused on tech gadgets and workflow optimization.",
     "Golfer on weekends, studies engineering, shares campus club activities." >>

ClassifierPrefix ==
  <<"/","p","r","o","f","i","l","e","-","i","n","s","t","a","g","r","a","m","-","u","s","e","r","/">>

EnrichPrefix ==
  <<"/","e","n","r","i","c","h","-","p","r","o","f","i","l","e","/">>

(***************************** binary64 arithmetic *************************)
Limb == 2^27

\* The float literals of the source, as the doubles Python parses them to.
F1_5 == <<201326592, 0>>          \* 1.5 = 0x1.8p+0
F2_5 == <<335544320, 0>>          \* 2.5 = 0x1.4p+1
F0_4 == <<53687091, 26843546>>    \* 0.4 -> 0x1.999999999999ap-2
F0_9 == <<120795955, 26843546>>   \* 0.9 -> 0x1.ccccccccccccdp-1
FOne == <<Limb, 0>>               \* 1.0
FHalf == <<Limb \div 2, 0>>       \* 0.5

FLt(x, y) == x[1] < y[1] \/ (x[1] = y[1] /\ x[2] < y[2])
FLe(x, y) == x = y \/ FLt(x, y)

\* Spacing of the doubles in the binade of x, in units of 2^-54.
Ulp(x) ==
  IF x[1] < Limb \div 2 THEN 1            \* below 0.5: every unit is a double
  ELSE IF x[1] < Limb THEN 2              \* [0.5, 1)
  ELSE IF x[1] < 2 * Limb THEN 4          \* [1, 2)
  ELSE 8                                  \* [2, 4)

Carry(hi, lo) == <<hi + lo \div Limb, lo % Limb>>

\* Round an exact value to the nearest double, ties to even.
RoundNearestEven(x) ==
  LET u == Ulp(x)
      rem == x[2] % u
      down == <<x[1], x[2] - rem>>
      up == Carry(x[1], x[2] - rem + u)
  IN  IF 2 * rem < u THEN down
      ELSE IF 2 * rem > u THEN up
      ELSE IF (x[2] \div u) % 2 = 0 THEN down ELSE up

FAdd(x, y) == RoundNearestEven(Carry(x[1] + y[1], x[2] + y[2]))

\* x - y for x >= y.
FSub(x, y) ==
  RoundNearestEven(IF x[2] >= y[2] THEN <<x[1] - y[1], x[2] - y[2]>>
                   ELSE <<x[1] - y[1] - 1, x[2] + Limb - y[2]>>)

\* w * r for the two widths the source uses (1.0 and 0.5) and r in [0, 1) a
\* multiple of 2^-53: a power-of-two scaling, exact.
FMul(w, r) ==
  CASE w = FOne -> r
    [] w = FHalf -> <<r[1] \div 2, (r[1] % 2) * (Limb \div 2) + r[2] \div 2>>

\* random.random() returns k * 2^-53 for an integer 0 <= k < 2^53, that is 2k
\* units.  The samples: the EdgeSamples smallest, the EdgeSamples largest, and
\* the middle of the range.
RandomSamples ==
  {<<0, 2 * k>> : k \in 0 .. (EdgeSamples - 1)}
    \cup {<<Limb - 1, Limb - 2 * j>> : j \in 1 .. EdgeSamples}
    \cup {FHalf}

\* random.uniform(a, b) is  a + (b - a) * self.random().
uniform(a, b, r) == FAdd(a, FMul(FSub(b, a), r))

(***************************** request paths *******************************)
Alphabet == {"a", "/", "?"}

\* Every string over Alphabet of length at most n.
Tails(n) == UNION {[1 .. k -> Alphabet] : k \in 0 .. n}

\* What a request path starts with: the two routes, the enrichment route
\* without its last '/', the enrichment route below another segment, and '/'.
Prefixes ==
  { <<"/">>, ClassifierPrefix, EnrichPrefix,
    SubSeq(EnrichPrefix, 1, Len(EnrichPrefix) - 1),
    <<"/", "x">> \o EnrichPrefix }

AllPaths == {p \o t : p \in Prefixes, t \in Tails(MaxTailLen)}

\* The paths of the runs with several clients: both routes with two
\* usernames each, and a path no route matches.
ServerPaths ==
  {p \o u : p \in {ClassifierPrefix, EnrichPrefix}, u \in {<<"a">>, <<"b">>}}
    \cup {<<"/">>}

(***************************** pure helpers ********************************)
None == [matched |-> FALSE, group1 |-> <<>>]

\* ReMatch without the closing '$': the pattern may stop before the path does.
ReMatchNoEnd(prefix, path) ==
  IF /\ Len(path) > Len(prefix)
     /\ SubSeq(path, 1, Len(prefix)) = prefix
     /\ path[Len(prefix) + 1] # "/"
  THEN LET stops == {k \in (Len(prefix) + 1) .. Len(path) : path[k] = "/"}
           last == IF stops = {} THEN Len(path)
                   ELSE (CHOOSE k \in stops : \A l \in stops : k <= l) - 1
       IN  [matched |-> TRUE, group1 |-> SubSeq(path, Len(prefix) + 1, last)]
  ELSE None

\* ReMatch on the path with its query string cut off first.
ReMatchStripQuery(prefix, path) ==
  LET marks == {k \in 1 .. Len(path) : path[k] = "?"}
      bare == IF marks = {} THEN path
              ELSE SubSeq(path, 1, (CHOOSE k \in marks : \A l \in marks : k <= l) - 1)
  IN  IF /\ Len(bare) > Len(prefix)
         /\ SubSeq(bare, 1, Len(prefix)) = prefix
         /\ \A k \in (Len(prefix) + 1) .. Len(bare) : bare[k] # "/"
      THEN [matched |-> TRUE, group1 |-> SubSeq(bare, Len(prefix) + 1, Len(bare))]
      ELSE None

\* re.match(r'^<prefix>([^/]+)$', path): the path is the prefix followed by
\* one or more characters other than '/', up to its end; group(1) is that
\* rest.  ('$' also matches before a final newline, but [^/]+ is greedy and
\* takes the newline too, so group(1) is the whole rest either way.)
ReMatch(prefix, path) ==
  IF /\ Len(path) > Len(prefix)
     /\ SubSeq(path, 1, Len(prefix)) = prefix
     /\ \A k \in (Len(prefix) + 1) .. Len(path) : path[k] # "/"
  THEN [matched |-> TRUE, group1 |-> SubSeq(path, Len(prefix) + 1, Len(path))]
  ELSE None

\* MergeUsername with the username under the key "user".
MergeUsernameWrongKey(table, k, username) ==
  [ merged |-> [key \in DOMAIN table[k] \cup {"user"} |->
                  IF key = "user" THEN username ELSE table[k][key]],
    table |-> table ]

\* MergeUsername as  result["username"] = username : the table's own record
\* is written.
MergeUsernameInPlace(table, k, username) ==
  LET merged == [key \in DOMAIN table[k] \cup {"username"} |->
                   IF key = "username" THEN username ELSE table[k][key]]
  IN  [merged |-> merged, table |-> [table EXCEPT ![k] = merged]]

\* MergeUsername as  result.setdefault("username", username) : the table's
\* own record is written, once.
MergeUsernameSetDefault(table, k, username) ==
  LET merged == IF "username" \in DOMAIN table[k] THEN table[k]
                ELSE [key \in DOMAIN table[k] \cup {"username"} |->
                        IF key = "username" THEN username ELSE table[k][key]]
  IN  [merged |-> merged, table |-> [table EXCEPT ![k] = merged]]

\* result = random.choice(sample_data)       (table[k] is the chosen record)
\* result_with_username = {**result, "username": username}
\* A new dict is built; the table keeps the record it had.
MergeUsername(table, k, username) ==
  [ merged |-> [key \in DOMAIN table[k] \cup {"username"} |->
                  IF key = "username" THEN username ELSE table[k][key]],
    table |-> table ]

\* EnrichPayload with the sentence under the key "text".
EnrichPayloadWrongKey(username, raw_text) ==
  [username |-> username, text |-> raw_text]

\* The enrichment payload.
EnrichPayload(username, raw_text) ==
  [username |-> username, raw_text |-> raw_text]

NotFoundPayload == [error |-> "Not Found"]

ClassifierDelay(r) == uniform(F1_5, F2_5, r)

\* EnrichDelay with the classifier's range.
EnrichDelayCopied(r) == uniform(F1_5, F2_5, r)

EnrichDelay(r) == uniform(F0_4, F0_9, r)

\* JsonCalls with the body written before the header block is ended.
JsonCallsBodyFirst ==
  <<"send_response", "send_header_content_type", "send_header_cors",
    "write", "end_headers">>

\* The calls _json makes, in order.  (send_response also buffers the Server
\* and Date lines that http.server adds on its own; the handler sets neither
\* and they are left out.)
JsonCalls ==
  <<"send_response", "send_header_content_type", "send_header_cors",
    "end_headers", "write">>

ContentTypeHeader == [kind |-> "header", code |-> 0,
                      name |-> "Content-type", value |-> "application/json"]

CorsHeader == [kind |-> "header", code |-> 0,
               name |-> "Access-Control-Allow-Origin", value |-> "*"]

StatusLine(status) == [kind |-> "status", code |-> status, name |-> "", value |-> ""]

\* AfterClassifier without the return: do_GET goes on to the next test.
AfterClassifierFallThrough == "if_enrich"

\* Where do_GET goes once _json has returned in the classifier branch
\* (line 63) and in the enrichment branch (line 74): it returns.
AfterClassifier == "finish"

AfterEnrich == "finish"

(***************************** state ***************************************)
NoWire == [head |-> <<>>, body |-> <<>>]

\* A connection a client has opened and sent its request line on; it waits in
\* the listening socket's backlog until the server accepts it.
NewConn(path) ==
  [ path |-> path, pc |-> "backlog",
    match_classifier |-> None, match_enrich |-> None,
    username |-> <<>>, d |-> <<0, 0>>, sleeps |-> 0, pick |-> 0,
    status |-> 0, payload |-> <<>>, jpc |-> 0, jret |-> "",
    buf |-> <<>>, wire |-> NoWire, delivered |-> 0 ]

\* A connection the server is done with: the handler's locals are gone and
\* the bytes are with the client; what is kept is how many bodies it got.
ClosedConn(c) == [NewConn(<<>>) EXCEPT !.pc = "closed", !.delivered = Len(c.wire.body)]

InHandler(c) == c.pc \notin {"backlog", "closed"}

Init ==
  /\ sample_data = SampleData0
  /\ enrichment_samples = EnrichmentSamples0
  /\ conn = <<>>

(***************************** clients *************************************)
\* Clients connect whenever they like, also while a request is being handled.
ClientConnects ==
  /\ Len(conn) < MaxRequests
  /\ \E p \in ServerPaths : conn' = Append(conn, NewConn(p))
  /\ UNCHANGED <<sample_data, enrichment_samples>>

\* One client that sends its next request when the last one is answered.
SequentialClient ==
  /\ Len(conn) < MaxRequests
  /\ \A j \in 1 .. Len(conn) : conn[j].pc = "closed"
  /\ \E p \in AllPaths : conn' = Append(conn, NewConn(p))
  /\ UNCHANGED <<sample_data, enrichment_samples>>

(***************************** server **************************************)
\* CanAccept of a server with a thread per connection.
CanAcceptThreaded == TRUE

\* HTTPServer.serve_forever: a single thread that accepts a connection, runs
\* the handler to its end, closes the connection, and only then accepts again.
CanAccept == \A j \in 1 .. Len(conn) : ~InHandler(conn[j])

Accept(i) ==
  /\ conn[i].pc = "backlog"
  /\ \A j \in 1 .. (i - 1) : conn[j].pc # "backlog"
  /\ CanAccept
  /\ conn' = [conn EXCEPT ![i].pc = "do_GET"]
  /\ UNCHANGED <<sample_data, enrichment_samples>>

\* Lines 51-54: both patterns are tried before either is looked at.
DoGetMatch(i) ==
  /\ conn[i].pc = "do_GET"
  /\ conn' = [conn EXCEPT
       ![i].match_classifier = ReMatch(ClassifierPrefix, conn[i].path),
       ![i].match_enrich = ReMatch(EnrichPrefix, conn[i].path),
       ![i].pc = "if_classifier"]
  /\ UNCHANGED <<sample_data, enrichment_samples>>

\* Lines 56-58: the classifier branch is entered and goes to sleep.
IfClassifier(i) ==
  /\ conn[i].pc = "if_classifier"
  /\ IF conn[i].match_classifier.matched
     THEN \E r \in RandomSamples :
            conn' = [conn EXCEPT
              ![i].username = conn[i].match_classifier.group1,
              ![i].d = ClassifierDelay(r),
              ![i].sleeps = @ + 1,
              ![i].pc = "sleep_classifier"]
     ELSE conn' = [conn EXCEPT ![i].pc = "if_enrich"]
  /\ UNCHANGED <<sample_data, enrichment_samples>>

\* Lines 59-62: time.sleep has returned; pick, merge, call _json(200, ...).
ChoiceClassifier(i) ==
  /\ conn[i].pc = "sleep_classifier"
  /\ \E k \in 1 .. Len(sample_data) :
       LET m == MergeUsername(sample_data, k, conn[i].username)
       IN  /\ conn' = [conn EXCEPT
                ![i].d = <<0, 0>>,
                ![i].pick = k,
                ![i].status = 200,
                ![i].payload = m.merged,
                ![i].jpc = 1,
                ![i].jret = "return_classifier",
                ![i].pc = "_json"]
           /\ sample_data' = m.table
  /\ UNCHANGED enrichment_samples

\* Line 63.
ReturnClassifier(i) ==
  /\ conn[i].pc = "return_classifier"
  /\ conn' = [conn EXCEPT ![i].pc = AfterClassifier]
  /\ UNCHANGED <<sample_data, enrichment_samples>>

\* Lines 65-68.
IfEnrich(i) ==
  /\ conn[i].pc = "if_enrich"
  /\ IF conn[i].match_enrich.matched
     THEN \E r \in RandomSamples :
            conn' = [conn EXCEPT
              ![i].username = conn[i].match_enrich.group1,
              ![i].d = EnrichDelay(r),
              ![i].sleeps = @ + 1,
              ![i].pc = "sleep_enrich"]
     ELSE conn' = [conn EXCEPT ![i].pc = "not_found"]
  /\ UNCHANGED <<sample_data, enrichment_samples>>

\* Lines 69-73.
ChoiceEnrich(i) ==
  /\ conn[i].pc = "sleep_enrich"
  /\ \E k \in 1 .. Len(enrichment_samples) :
       conn' = [conn EXCEPT
         ![i].d = <<0, 0>>,
         ![i].pick = k,
         ![i].status = 200,
         ![i].payload = EnrichPayload(conn[i].username, enrichment_samples[k]),
         ![i].jpc = 1,
         ![i].jret = "return_enrich",
         ![i].pc = "_json"]
  /\ UNCHANGED <<sample_data, enrichment_samples>>

\* Line 74.
ReturnEnrich(i) ==
  /\ conn[i].pc = "return_enrich"
  /\ conn' = [conn EXCEPT ![i].pc = AfterEnrich]
  /\ UNCHANGED <<sample_data, enrichment_samples>>

\* Line 77; do_GET ends when this _json returns.
NotFound(i) ==
  /\ conn[i].pc = "not_found"
  /\ conn' = [conn EXCEPT
       ![i].status = 404,
       ![i].payload = NotFoundPayload,
       ![i].jpc = 1,
       ![i].jret = "finish",
       ![i].pc = "_json"]
  /\ UNCHANGED <<sample_data, enrichment_samples>>

\* One call of _json (lines 43-47).  send_response and send_header append to
\* the handler's header buffer, end_headers writes the buffer to the socket,
\* wfile.write writes the body.
JsonStep(i) ==
  /\ conn[i].pc = "_json"
  /\ LET c == conn[i]
         call == JsonCalls[c.jpc]
         done == c.jpc = Len(JsonCalls)
         c1 == CASE call = "send_response" ->
                      [c EXCEPT !.buf = Append(@, StatusLine(c.status))]
                 [] call = "send_header_content_type" ->
                      [c EXCEPT !.buf = Append(@, ContentTypeHeader)]
                 [] call = "send_header_cors" ->
                      [c EXCEPT !.buf = Append(@, CorsHeader)]
                 [] call = "end_headers" ->
                      [c EXCEPT !.wire.head = @ \o c.buf, !.buf = <<>>]
                 [] call = "write" ->
                      [c EXCEPT !.wire.body = Append(@, c.payload)]
     IN  conn' = [conn EXCEPT ![i] =
                    IF done THEN [c1 EXCEPT !.pc = c.jret, !.jpc = 0, !.jret = ""]
                    ELSE [c1 EXCEPT !.jpc = @ + 1]]
  /\ UNCHANGED <<sample_data, enrichment_samples>>

\* do_GET has returned: the server shuts the connection down.
Finish(i) ==
  /\ conn[i].pc = "finish"
  /\ conn' = [conn EXCEPT ![i] = ClosedConn(conn[i])]
  /\ UNCHANGED <<sample_data, enrichment_samples>>

\* A connection the clients have opened.
Open(i) == i <= Len(conn)

ServerStep ==
  \E i \in 1 .. MaxRequests :
    \/ Open(i) /\ Accept(i)
    \/ Open(i) /\ DoGetMatch(i)
    \/ Open(i) /\ IfClassifier(i)
    \/ Open(i) /\ ChoiceClassifier(i)
    \/ Open(i) /\ ReturnClassifier(i)
    \/ Open(i) /\ IfEnrich(i)
    \/ Open(i) /\ ChoiceEnrich(i)
    \/ Open(i) /\ ReturnEnrich(i)
    \/ Open(i) /\ NotFound(i)
    \/ Open(i) /\ JsonStep(i)
    \/ Open(i) /\ Finish(i)

Next == ClientConnects \/ ServerStep

Spec == Init /\ [][Next]_vars

\* The server never stops taking steps it can take; clients owe nothing.
FairSpec == Spec /\ WF_vars(ServerStep)

RouteNext == SequentialClient \/ ServerStep

RouteSpec == Init /\ [][RouteNext]_vars

(***************************** vocabulary of the claims ********************)
\* The handler has returned and the connection is still open: all the bytes
\* of this request's response are on the wire.
Responded(c) == c.pc = "finish"

\* The status on the wire (0 before the header block is written).
WireStatus(c) ==
  IF Len(c.wire.head) > 0 /\ c.wire.head[1].kind = "status"
  THEN c.wire.head[1].code ELSE 0

\* HTTP field names compare without regard to case.
FieldName(n) ==
  CASE n \in {"Content-type", "Content-Type", "content-type"} -> "content-type"
    [] n \in {"Access-Control-Allow-Origin", "access-control-allow-origin"}
         -> "access-control-allow-origin"
    [] OTHER -> n

WireHasHeader(c, name, value) ==
  \E k \in 1 .. Len(c.wire.head) :
    /\ c.wire.head[k].kind = "header"
    /\ FieldName(c.wire.head[k].name) = FieldName(name)
    /\ c.wire.head[k].value = value

\* A username as the claims mean it: non-empty, no '/'.
ValidUsername(u) == u # <<>> /\ \A k \in 1 .. Len(u) : u[k] # "/"

StartsWith(prefix, path) ==
  Len(path) >= Len(prefix) /\ SubSeq(path, 1, Len(prefix)) = prefix

\* What follows the prefix in a path that starts with it.
Rest(prefix, path) == SubSeq(path, Len(prefix) + 1, Len(path))

\* The path is the prefix followed by a valid username.
OnRoute(prefix, path) ==
  StartsWith(prefix, path) /\ ValidUsername(Rest(prefix, path))

SameRecord(r, s) ==
  /\ DOMAIN r = DOMAIN s
  /\ r.labels = s.labels
  /\ r.data = s.data

(***************************** claims **************************************)
\* C1: a GET of /profile-instagram-user/u with u non-empty and free of '/'
\* is answered 200 with one JSON object whose keys are exactly labels, data
\* and username; labels and data.text come from the same one of the 2 sample
\* records and username is u.
C1_ClassifierResponse ==
  \A i \in 1 .. Len(conn) :
    LET u == Rest(ClassifierPrefix, conn[i].path)
    IN
    (StartsWith(ClassifierPrefix, conn[i].path) /\ ValidUsername(u)) =>
      /\ conn[i].pc # "not_found"
      /\ Responded(conn[i]) =>
           /\ WireStatus(conn[i]) = 200
           /\ Len(conn[i].wire.body) = 1
           /\ LET body == conn[i].wire.body[1]
              IN  /\ DOMAIN body = {"labels", "data", "username"}
                  /\ \E k \in 1 .. 2 :
                       /\ body.labels = SampleData0[k].labels
                       /\ DOMAIN body.data = {"text"}
                       /\ body.data.text = SampleData0[k].data.text
                  /\ body.username = u

C1_Witness ==
  \E i \in 1 .. Len(conn) :
    /\ conn[i].path = ClassifierPrefix \o <<"a", "?", "a">>
    /\ Responded(conn[i])
    /\ conn[i].wire.body[1].labels = SampleData0[2].labels

\* C2: a GET of /enrich-profile/u with u non-empty and free of '/' is
\* answered 200 with one JSON object with exactly the keys username and
\* raw_text; username is u and raw_text is one of the 5 enrichment sentences.
C2_EnrichResponse ==
  \A i \in 1 .. Len(conn) :
    LET u == Rest(EnrichPrefix, conn[i].path)
    IN
    (StartsWith(EnrichPrefix, conn[i].path) /\ ValidUsername(u)) =>
      /\ conn[i].pc # "not_found"
      /\ Responded(conn[i]) =>
           /\ WireStatus(conn[i]) = 200
           /\ Len(conn[i].wire.body) = 1
           /\ LET body == conn[i].wire.body[1]
              IN  /\ DOMAIN body = {"username", "raw_text"}
                  /\ body.username = u
                  /\ \E k \in 1 .. 5 : body.raw_text = EnrichmentSamples0[k]

C2_Witness ==
  \E i \in 1 .. Len(conn) :
    /\ conn[i].path = EnrichPrefix \o <<"a", "a">>
    /\ Responded(conn[i])
    /\ conn[i].wire.body[1].raw_text = EnrichmentSamples0[5]

\* C3: a GET whose path matches neither pattern is answered 404 with the body
\* {"error": "Not Found"}, and the status is 200 exactly when the path
\* matches one of the two patterns.
C3_NotFound ==
  \A i \in 1 .. Len(conn) :
    Responded(conn[i]) =>
      LET routed == \/ OnRoute(ClassifierPrefix, conn[i].path)
                    \/ OnRoute(EnrichPrefix, conn[i].path)
      IN  /\ (WireStatus(conn[i]) = 200) <=> routed
          /\ ~routed =>
               /\ WireStatus(conn[i]) = 404
               /\ Len(conn[i].wire.body) = 1
               /\ DOMAIN conn[i].wire.body[1] = {"error"}
               /\ conn[i].wire.body[1].error = "Not Found"

\* A recognized prefix followed by a segment with a further '/'.
C3_Witness ==
  \E i \in 1 .. Len(conn) :
    /\ conn[i].path = ClassifierPrefix \o <<"a", "/", "a">>
    /\ Responded(conn[i])
    /\ WireStatus(conn[i]) = 404

\* C4: every response carries Access-Control-Allow-Origin: *, every 200
\* response carries Content-Type: application/json, and both are on the wire
\* before any byte of the body.
C4_Headers ==
  \A i \in 1 .. Len(conn) :
    (Len(conn[i].wire.body) > 0 \/ Responded(conn[i])) =>
      /\ WireStatus(conn[i]) \in {200, 404}
      /\ WireHasHeader(conn[i], "Access-Control-Allow-Origin", "*")
      /\ WireStatus(conn[i]) = 200 =>
           WireHasHeader(conn[i], "Content-Type", "application/json")

C4_Witness ==
  \E i \in 1 .. Len(conn) :
    /\ Responded(conn[i])
    /\ WireStatus(conn[i]) = 404
    /\ Len(conn[i].wire.body) = 1
    /\ WireHasHeader(conn[i], "Access-Control-Allow-Origin", "*")

\* The route a path is on, read off the path alone.
RouteOf(path) ==
  IF OnRoute(ClassifierPrefix, path) THEN "classifier"
  ELSE IF OnRoute(EnrichPrefix, path) THEN "enrich"
  ELSE "none"

\* The handler is blocked in time.sleep(d).
Sleeping(c) == c.pc \in {"sleep_classifier", "sleep_enrich"}

\* The handler has begun to answer: something is buffered or written.
ResponseStarted(c) == Len(c.buf) > 0 \/ Len(c.wire.head) > 0 \/ Len(c.wire.body) > 0

\* C5 with the classifier route's upper bound on d either excluded
\* (halfOpen) or included; all else as the claim has it.
DelayByRoute(halfOpen) ==
  \A i \in 1 .. Len(conn) :
    LET c == conn[i]
        route == RouteOf(c.path)
    IN  /\ c.sleeps <= 1
        /\ Sleeping(c) =>
             /\ c.sleeps = 1
             /\ ~ResponseStarted(c)
             /\ route # "none"
             /\ c.pc = "sleep_classifier" <=> route = "classifier"
             /\ IF route = "classifier"
                THEN /\ FLe(F1_5, c.d)
                     /\ IF halfOpen THEN FLt(c.d, F2_5) ELSE FLe(c.d, F2_5)
                ELSE /\ FLe(F0_4, c.d)
                     /\ FLt(c.d, F0_9)
        /\ ResponseStarted(c) =>
             /\ c.sleeps = (IF route = "none" THEN 0 ELSE 1)
             /\ WireStatus(c) \in {0, IF route = "none" THEN 404 ELSE 200}

\* C5 as stated: the handler sleeps once for d with 1.5 <= d < 2.5 on the
\* classifier route, once for d with 0.4 <= d < 0.9 on the enrichment route,
\* and not at all before the 404 of an unmatched path.
C5_DelayHalfOpen == DelayByRoute(TRUE)

\* C5 amended: as stated, but on the classifier route 1.5 <= d <= 2.5: the
\* sum 1.5 + 1.0 * random() is rounded to the nearest double, which is 2.5
\* for the largest values of random().
C5_DelayClosedAbove == DelayByRoute(FALSE)

\* The classifier route asleep for exactly 2.5 s.
C5_Witness ==
  \E i \in 1 .. Len(conn) :
    /\ conn[i].pc = "sleep_classifier"
    /\ conn[i].d = F2_5
    /\ conn[i].sleeps = 1

\* C6: after any sequence of GETs the 2-record sample table and the
\* 5-sentence enrichment table hold their initial contents; no username key
\* is written into a sample record.
C6_TablesUnchanged ==
  /\ Len(sample_data) = Len(SampleData0)
  /\ \A k \in 1 .. Len(SampleData0) : SameRecord(sample_data[k], SampleData0[k])
  /\ enrichment_samples = EnrichmentSamples0

\* The second sample record has gone out with a username added, in the last
\* request of a run.
C6_Witness ==
  /\ Len(conn) = MaxRequests
  /\ \E i \in 1 .. Len(conn) :
       /\ Responded(conn[i])
       /\ conn[i].pick = 2
       /\ "username" \in DOMAIN conn[i].wire.body[1]
       /\ \A j \in 1 .. (i - 1) : conn[j].pc = "closed"

HasOutput(c) == Len(c.wire.head) > 0 \/ Len(c.wire.body) > 0 \/ c.delivered > 0

FullyWritten(c) ==
  \/ c.pc = "closed"
  \/ c.pc \in {"return_classifier", "return_enrich", "finish"} /\ Len(c.wire.body) = 1

\* C7: at most one request is inside the handler at any time, and a request
\* gets no part of its response before every request that arrived earlier
\* has its response fully written.
C7_OneAtATime ==
  /\ Cardinality({i \in 1 .. Len(conn) : InHandler(conn[i])}) <= 1
  /\ \A i, j \in 1 .. Len(conn) :
       (i < j /\ HasOutput(conn[j])) => FullyWritten(conn[i])

\* A request waits in the backlog while an earlier one sleeps.
C7_Witness ==
  \E i, j \in 1 .. Len(conn) :
    /\ i < j
    /\ Sleeping(conn[i])
    /\ conn[j].pc = "backlog"

\* What a server that has handled nothing yet answers to path with pick.
FreshResponse(path, pick) ==
  LET mc == ReMatch(ClassifierPrefix, path)
      me == ReMatch(EnrichPrefix, path)
      status == IF mc.matched \/ me.matched THEN 200 ELSE 404
  IN  [ head |-> <<StatusLine(status), ContentTypeHeader, CorsHeader>>,
        body |-> << IF mc.matched
                    THEN MergeUsername(SampleData0, pick, mc.group1).merged
                    ELSE IF me.matched
                    THEN EnrichPayload(me.group1, EnrichmentSamples0[pick])
                    ELSE NotFoundPayload >> ]

SamePayload(a, b) ==
  /\ DOMAIN a = DOMAIN b
  /\ \A key \in DOMAIN a : a[key] = b[key]

StatusLines(lines) == Cardinality({k \in 1 .. Len(lines) : lines[k].kind = "status"})

AtMostOneResponse(c) ==
  /\ Len(c.wire.body) <= 1
  /\ StatusLines(c.buf) + StatusLines(c.wire.head) <= 1
  /\ c.delivered <= 1

\* C9: every request that enters the handler gets exactly one response: it
\* never has more than one status line or body, and it ends closed with one
\* body delivered.
C9_ExactlyOneResponse ==
  /\ [](\A i \in 1 .. Len(conn) : AtMostOneResponse(conn[i]))
  /\ \A i \in 1 .. MaxRequests :
       (Open(i) /\ InHandler(conn[i]))
         ~> (Open(i) /\ conn[i].pc = "closed" /\ conn[i].delivered = 1)

\* Every connection of the run is closed with one response delivered.
C9_Witness ==
  /\ Len(conn) = MaxRequests
  /\ \A i \in 1 .. Len(conn) : conn[i].pc = "closed" /\ conn[i].delivered = 1

\* C10: the username of a 200 response is all of the request path after the
\* route prefix, unchanged: a path such as /enrich-profile/a?a is answered
\* 200 with username "a?a", and one whose query part holds a '/' is
\* answered 404.
C10_UsernameVerbatim ==
  \A i \in 1 .. Len(conn) :
    Responded(conn[i]) =>
      LET c == conn[i]
      IN  /\ WireStatus(c) = 200 =>
               \/ c.path = ClassifierPrefix \o c.wire.body[1].username
               \/ c.path = EnrichPrefix \o c.wire.body[1].username
          /\ \A prefix \in {ClassifierPrefix, EnrichPrefix} :
               LET t == Rest(prefix, c.path)
               IN  \A m \in 1 .. Len(t) :
                     \* t is u?q with u = t[1..m-1] a valid username
                     ( /\ StartsWith(prefix, c.path)
                       /\ t[m] = "?"
                       /\ ValidUsername(SubSeq(t, 1, m - 1)) ) =>
                       IF \E k \in (m + 1) .. Len(t) : t[k] = "/"
                       THEN WireStatus(c) = 404
                       ELSE /\ WireStatus(c) = 200
                            /\ c.wire.body[1].username = t

C10_Witness ==
  \E i \in 1 .. Len(conn) :
    /\ conn[i].path = EnrichPrefix \o <<"a", "?", "a">>
    /\ Responded(conn[i])
    /\ WireStatus(conn[i]) = 200
    /\ conn[i].wire.body[1].username = <<"a", "?", "a">>

====
